---- MODULE Spec2Model ----
(***************************************************************************)
(* State-machine model of sscape_adapter.py: the CameraIntrinsics          *)
(* resolver, the PostInferenceDataPublish frame aggregator (confidence     *)
(* gate, metadata policies, resolution/intrinsics latches, image           *)
(* requests) and the PostDecodeTimestampCapture timestamp filter.          *)
(*                                                                         *)
(* Conventions.  Python None is a sentinel of the modelled type (NoRes,    *)
(* NoObj, NoTime).  A Python function that may raise is an operator        *)
(* returning a record with a `raised` field.  Confidences, thresholds,     *)
(* focal lengths and times are integers (fixed-point where the code uses   *)
(* floats).  Fields the code copies through without reading them back      *)
(* (timestamps, debug fields, pixel boxes) are left out of the records     *)
(* of the aggregator; computeObjBoundingBoxParams and the CameraIntrinsics *)
(* constructor are also modelled as calls of their own, and processFrame   *)
(* a second time statement by statement, beside the MQTT callback thread.  *)
(***************************************************************************)
EXTENDS Integers, Sequences, FiniteSets, TLC

VARIABLES
  \* ---- PostInferenceDataPublish instance
  metadatagenpolicy,            \* name of the selected metadata policy
  confidence_thresholds,        \* label -> threshold, with a "default" entry
  calib_intrinsics,             \* self._calib_intrinsics
  calib_distortion,             \* self._calib_distortion
  intrinsics_obj,               \* self.intrinsics_obj (NoObj = None)
  resolution,                   \* self.resolution (NoRes = None)
  frame_level_data,             \* self.frame_level_data
  is_publish_image,             \* self.is_publish_image
  is_publish_calibration_image, \* self.is_publish_calibration_image
  connected,                    \* self.client.is_connected()
  \* ---- observation of the last PostInferenceDataPublish call
  gvadata,                      \* metadata of the last frame whose object loop ran to line 413
  outcome,                      \* how the processFrame/buildObjData call of the last step ended
  published,                    \* messages published in the last step
  intrinsics_calls,             \* number of CameraIntrinsics(...) invocations so far
  \* ---- PostDecodeTimestampCapture instance
  ntpServer,                    \* TRUE when a network time source is configured
  lastTimeSync,                 \* self.lastTimeSync (NoTime = None)
  timeOffset,                   \* self.timeOffset
  fps,                          \* self.fps, in thousandths of a frame per second
  last_calculated_fps_ts,       \* self.last_calculated_fps_ts (NoTime = None)
  frame_cnt,                    \* self.frame_cnt
  \* ---- observation of the last PostDecodeTimestampCapture call
  clock,                        \* time.time() of the last call, in seconds (1 at start)
  ts_outcome,                   \* how the last PostDecodeTimestampCapture.processFrame ended
  ntp_queries,                  \* times of the last two ntpClient.request calls
  ts_frames,                    \* number of frames handed to the timestamp filter
  frames_since_anchor,          \* frames that arrived after the frame that set the anchor
  fps_calc,                     \* the frame count the last rate recompute used
  \* ---- a direct call of the CameraIntrinsics constructor and of asDict
  ci_args,                      \* the arguments (intrinsics, distortion, resolution)
  ci_result,                    \* what the constructor and asDict gave
  \* ---- a call of computeObjBoundingBoxParams
  bb_args,                      \* fw, fh, the pixel box and the normalized box
  bb_result,                    \* the fields it put into pobj
  \* ---- processFrame run statement by statement beside the MQTT callback
  pc,                           \* the statement of processFrame the frame thread is at
  thread_imgdatadict,           \* the local imgdatadict of the processFrame call under way
  unserved                      \* per flag: a command arrived after the frame path's last check

pubvars == <<metadatagenpolicy, confidence_thresholds, calib_intrinsics, calib_distortion,
             intrinsics_obj, resolution, frame_level_data, is_publish_image,
             is_publish_calibration_image, connected, gvadata, outcome, published,
             intrinsics_calls>>

tsvars == <<ntpServer, lastTimeSync, timeOffset, fps, last_calculated_fps_ts, frame_cnt,
            clock, ts_outcome, ntp_queries, ts_frames, frames_since_anchor, fps_calc>>

civars == <<ci_args, ci_result>>

bbvars == <<bb_args, bb_result>>

threadvars == <<pc, thread_imgdatadict, unserved>>

vars == <<pubvars, tsvars, civars, bbvars, threadvars>>

-----------------------------------------------------------------------------
(* Bounds of the model *)

\* most detections in one frame's `objects` sequence
MaxDets == 2

\* the CameraIntrinsics constructor is observed up to this many invocations
MaxIntrinsicsCalls == 3

\* most frames handed to the timestamp filter in one behaviour
MaxTsFrames == 6

-----------------------------------------------------------------------------
(* Generic helpers *)

Range(s) == {s[i] : i \in DOMAIN s}

SeqsUpTo(S, n) == UNION {[1..k -> S] : k \in 0..n}

\* the empty dict {} (also the empty list: both are the empty function)
EmptyDict == <<>>

\* dict.get(key, default)
DictGet(d, key, default) == IF key \in DOMAIN d THEN d[key] ELSE default

RECURSIVE ISqrtFrom(_, _)
ISqrtFrom(n, x) ==
  LET y == (x + n \div x) \div 2
  IN IF y >= x THEN x ELSE ISqrtFrom(n, y)

\* math.sqrt, truncated to an integer (Newton's iteration)
ISqrt(n) == IF n = 0 THEN 0 ELSE ISqrtFrom(n, n)

-----------------------------------------------------------------------------
(* CameraIntrinsics                                                          *)
(*                                                                           *)
(* A calibration description is [kind, d, l]: kind "none" (None), "dict"     *)
(* (the mapping d), "list" (the list or tuple l), "matrix" (a pre-built 3x3  *)
(* nested list, l holding fx, fy, cx, cy) or "scalar" (any other value).     *)
(* A distortion description is [kind, d, l] likewise.                        *)

INTRINSICS_KEYS == <<"fx", "fy", "cx", "cy">>

DISTORTION_KEYS == <<"k1", "k2", "p1", "p2", "k3", "k4", "k5", "k6",
                     "s1", "s2", "s3", "s4", "taux", "tauy">>

\* length of the distortion vector
DISTORTION_LEN == 14

NoCalib == [kind |-> "none", d |-> EmptyDict, l |-> <<>>]
DictCalib(d) == [kind |-> "dict", d |-> d, l |-> <<>>]
ListCalib(l) == [kind |-> "list", d |-> EmptyDict, l |-> l]

\* the 3x3 pinhole matrix [[fx, 0, cx], [0, fy, cy], [0, 0, 1]]
Matrix(fx, fy, cx, cy) == <<<<fx, 0, cx>>, <<0, fy, cy>>, <<0, 0, 1>>>>

\* the intrinsics value being resolved: a 3x3 matrix m, or a flat list l
AsMatrix(m) == [shape |-> "3x3", m |-> m, l |-> <<>>]
AsFlat(l) == [shape |-> "flat", m |-> <<>>, l |-> l]

\* None for self.intrinsics_obj
NoObj == [shape |-> "none", m |-> <<>>, l |-> <<>>, distortion |-> <<>>]

Raise(what) == [raised |-> TRUE, error |-> what, value |-> <<>>]
Return(v) == [raised |-> FALSE, error |-> "none", value |-> v]

\* CameraIntrinsics.intrinsicsDictToList
intrinsicsDictToList(iDict) ==
  IF DOMAIN iDict \subseteq Range(INTRINSICS_KEYS)
  THEN IF Range(INTRINSICS_KEYS) \subseteq DOMAIN iDict
       THEN Return([i \in 1..4 |-> iDict[INTRINSICS_KEYS[i]]])
       ELSE Raise("KeyError")
  ELSE IF {"hfov", "vfov"} \subseteq DOMAIN iDict
       THEN Return(<<iDict["hfov"], iDict["vfov"]>>)
       ELSE IF "fov" \in DOMAIN iDict
            THEN Return(<<iDict["fov"]>>)
            ELSE Raise("ValueError")

\* CameraIntrinsics.distortionDictToList
distortionDictToList(dDict) ==
  [i \in 1..Len(DISTORTION_KEYS) |-> DictGet(dDict, DISTORTION_KEYS[i], 0)]

\* a list kept as it is, without the padding
setDistortion_unpadded(distortion) ==
  IF distortion.kind = "list"
  THEN Return(distortion.l)
  ELSE IF distortion.kind = "dict"
       THEN Return(distortionDictToList(distortion.d))
       ELSE Return([i \in 1..DISTORTION_LEN |-> 0])

\* CameraIntrinsics._setDistortion: the 14-entry vector, or the error of np.pad
\* on a negative pad width
setDistortion(distortion) ==
  IF distortion.kind = "list"
  THEN IF Len(distortion.l) > DISTORTION_LEN
       THEN Raise("ValueError")
       ELSE Return(distortion.l \o [i \in 1..(DISTORTION_LEN - Len(distortion.l)) |-> 0])
  ELSE IF distortion.kind = "dict"
       THEN Return(distortionDictToList(distortion.d))
       ELSE Return([i \in 1..DISTORTION_LEN |-> 0])

\* 1000 * math.tan(math.radians(angle / 2)) for the angles of the model
TanHalfMilli(angle) ==
  CASE angle = 0 -> 0
    [] angle = 60 -> 577
    [] angle = 90 -> 1000
    [] OTHER -> 1732

\* num / math.tan(math.radians(float(angle) / 2)), truncated
FocalFromFoV(num, angle) == (num * 1000) \div TanHalfMilli(angle)

\* the resolution checked for being given, not for its length
computeIntrinsicsFromFoV_anyLength(res, fov) ==
  IF Len(res) < 2
  THEN Raise("ValueError")
  ELSE LET cx == res[1] \div 2
           cy == res[2] \div 2
           d == ISqrt(cx * cx + cy * cy)
       IN IF Len(fov) = 0
          THEN Raise("TypeError")
          ELSE IF \E i \in 1..(IF Len(fov) = 1 THEN 1 ELSE 2) : TanHalfMilli(fov[i]) = 0
               THEN Raise("ZeroDivisionError")
               ELSE IF Len(fov) = 1
                    THEN Return(Matrix(FocalFromFoV(d, fov[1]), FocalFromFoV(d, fov[1]), cx, cy))
                    ELSE Return(Matrix(FocalFromFoV(cx, fov[1]), FocalFromFoV(cy, fov[2]), cx, cy))

\* CameraIntrinsics.computeIntrinsicsFromFoV; fov is a sequence of angles
computeIntrinsicsFromFoV(res, fov) ==
  IF Len(res) # 2
  THEN Raise("ValueError")
  ELSE LET cx == res[1] \div 2
           cy == res[2] \div 2
           d == ISqrt(cx * cx + cy * cy)
       IN IF Len(fov) = 0
          THEN Raise("TypeError")
          ELSE IF \E i \in 1..(IF Len(fov) = 1 THEN 1 ELSE 2) : TanHalfMilli(fov[i]) = 0
               THEN Raise("ZeroDivisionError")
               ELSE IF Len(fov) = 1
                    THEN Return(Matrix(FocalFromFoV(d, fov[1]), FocalFromFoV(d, fov[1]), cx, cy))
                    ELSE Return(Matrix(FocalFromFoV(cx, fov[1]), FocalFromFoV(cy, fov[2]), cx, cy))

\* lines 39-69 of CameraIntrinsics.__init__: the matrix or list taken directly
\* (fov = <<>>), or the field-of-view angles to resolve (isFov)
ClassifyIntrinsics(intrinsics) ==
  LET ofList(l) ==
        IF Len(l) = 1 \/ Len(l) = 2
        THEN Return([isFov |-> TRUE, fov |-> l, direct |-> AsFlat(l)])
        ELSE IF Len(l) = 4
             THEN Return([isFov |-> FALSE, fov |-> <<>>,
                          direct |-> AsMatrix(Matrix(l[1], l[2], l[3], l[4]))])
             ELSE Return([isFov |-> FALSE, fov |-> <<>>, direct |-> AsFlat(l)])
  IN CASE intrinsics.kind = "dict" ->
            LET lst == intrinsicsDictToList(intrinsics.d)
            IN IF lst.raised
               THEN lst
               ELSE IF Range(INTRINSICS_KEYS) \subseteq DOMAIN intrinsics.d
                    THEN Return([isFov |-> FALSE, fov |-> <<>>,
                                 direct |-> AsMatrix(Matrix(intrinsics.d["fx"], intrinsics.d["fy"],
                                                            intrinsics.d["cx"], intrinsics.d["cy"]))])
                    ELSE ofList(lst.value)
       [] intrinsics.kind = "list" -> ofList(intrinsics.l)
       [] intrinsics.kind = "matrix" ->
            Return([isFov |-> FALSE, fov |-> <<>>,
                    direct |-> AsMatrix(Matrix(intrinsics.l[1], intrinsics.l[2],
                                               intrinsics.l[3], intrinsics.l[4]))])
       \* None stays as it is (np.array(None), no matrix)
       [] intrinsics.kind = "none" ->
            Return([isFov |-> FALSE, fov |-> <<>>, direct |-> AsFlat(<<>>)])
       \* any other value becomes fov (no angles: len(fov) raises TypeError)
       [] OTHER -> Return([isFov |-> TRUE, fov |-> <<>>, direct |-> AsFlat(<<>>)])

\* CameraIntrinsics.__init__: the constructed object, or the error raised
CameraIntrinsics(intrinsics, distortion, res) ==
  LET c == ClassifyIntrinsics(intrinsics)
  IN IF c.raised
     THEN c
     ELSE LET m == IF c.value.isFov
                   THEN computeIntrinsicsFromFoV(res, c.value.fov)
                   ELSE Return(c.value.direct.m)
              dist == setDistortion(distortion)
          IN IF m.raised
             THEN m
             ELSE IF dist.raised
                  THEN dist
                  ELSE Return([shape |-> IF c.value.isFov THEN "3x3" ELSE c.value.direct.shape,
                               m |-> m.value,
                               l |-> IF c.value.isFov THEN <<>> ELSE c.value.direct.l,
                               distortion |-> dist.value])

\* dict(zip(DISTORTION_KEYS, distortion))
DistortionDict(distortion) ==
  [k \in Range(DISTORTION_KEYS) |->
     distortion[CHOOSE i \in 1..Len(DISTORTION_KEYS) : DISTORTION_KEYS[i] = k]]

\* fy and cy read from the first row
asDict_firstRow(obj) ==
  IF obj.shape # "3x3"
  THEN Raise("IndexError")
  ELSE Return([intrinsics |-> ("fx" :> obj.m[1][1]) @@ ("fy" :> obj.m[1][1])
                              @@ ("cx" :> obj.m[1][3]) @@ ("cy" :> obj.m[1][3]),
               distortion |-> DistortionDict(obj.distortion)])

\* CameraIntrinsics.asDict: indexing a flat array as a matrix raises IndexError
asDict(obj) ==
  IF obj.shape # "3x3"
  THEN Raise("IndexError")
  ELSE Return([intrinsics |-> ("fx" :> obj.m[1][1]) @@ ("fy" :> obj.m[2][2])
                              @@ ("cx" :> obj.m[1][3]) @@ ("cy" :> obj.m[2][3]),
               distortion |-> DistortionDict(obj.distortion)])

-----------------------------------------------------------------------------
(* Inputs of PostInferenceDataPublish *)

POLICIES == {"detectionPolicy", "reidPolicy", "classificationPolicy"}

Labels == {"person", "vehicle"}

\* detection confidences and thresholds, in tenths
Confidences == {3, 5}

\* confidence_thresholds tables: a "default" entry and optional per-label entries
ThresholdTables == {("default" :> 5) @@ ("person" :> 3), ("default" :> 3) @@ ("person" :> 5)}

\* number of floats struct.pack("256f", ...) takes
REID_FLOATS == 256

\* length of item['tensors'][1]['data']; 0 when the tensor is absent
TensorLens == {0, REID_FLOATS - 1, REID_FLOATS}

\* the classification field is absent
NoCls == "absent"

\* None for self.resolution; 'resolution' absent from the metadata
NoRes == <<>>

Resolutions == {<<640, 480>>, <<1280, 720>>}

\* A raw detection: the detection label and confidence, the length of the
\* second tensor's data and the label of the classification field.  A field
\* the selected policy never reads has one value only.
DetsOf ==
  [policy \in POLICIES |->
     [label : Labels, confidence : Confidences,
      tensor : IF policy = "reidPolicy" THEN TensorLens ELSE {0},
      cls : IF policy = "classificationPolicy" THEN Labels \cup {NoCls} ELSE {NoCls}]]

Dets(policy) == DetsOf[policy]

\* The frames whose `objects` is one of dets: hasObjects is 'objects' in
\* gvadata.  The inference metadata reports its objects together with the
\* resolution, so only a frame without detections may lack the resolution.
FramesWith(dets) ==
  [hasObjects : {TRUE}, objects : dets \ {<<>>}, resolution : Resolutions]
  \cup [hasObjects : {TRUE}, objects : {<<>>}, resolution : Resolutions \cup {NoRes}]
  \cup [hasObjects : {FALSE}, objects : {<<>>}, resolution : Resolutions \cup {NoRes}]

\* The metadata of one frame, of up to MaxDets detections
GvaDataOf == [policy \in POLICIES |-> FramesWith(SeqsUpTo(Dets(policy), MaxDets))]

GvaData(policy) == GvaDataOf[policy]

\* the frames the pipeline state machine is driven with: at most one detection
SingleDetFramesOf ==
  [policy \in POLICIES |-> FramesWith({<<>>} \cup {<<d>> : d \in Dets(policy)})]

SingleDetFrames(policy) == SingleDetFramesOf[policy]

NoFrame == [hasObjects |-> FALSE, objects |-> <<>>, resolution |-> NoRes]

\* the calibration entries of CAMERA_CALIBRATION a camera is configured with
Calibrations ==
  { [intrinsics |-> NoCalib, distortion |-> NoCalib],
    [intrinsics |-> DictCalib(("fx" :> 800) @@ ("fy" :> 810) @@ ("cx" :> 320) @@ ("cy" :> 240)),
     distortion |-> ListCalib(<<1, 2>>)],
    [intrinsics |-> DictCalib(("fx" :> 800) @@ ("fy" :> 810) @@ ("cx" :> 320) @@ ("cy" :> 240)
                              @@ ("skew" :> 0)),
     distortion |-> NoCalib],
    [intrinsics |-> DictCalib(("fov" :> 90)), distortion |-> DictCalib(("k1" :> 1))],
    [intrinsics |-> ListCalib(<<800, 810, 320>>), distortion |-> NoCalib] }

-----------------------------------------------------------------------------
(* A direct call CameraIntrinsics(intrinsics, distortion, resolution),       *)
(* followed by asDict() on the object it made                                *)

\* (fx, fy, cx, cy) values of a calibration
FourParams == {<<800, 810, 320, 240>>, <<1000, 990, 640, 360>>}

\* the mapping {fx, fy, cx, cy} of the four values p
FourKeyDict(p) == ("fx" :> p[1]) @@ ("fy" :> p[2]) @@ ("cx" :> p[3]) @@ ("cy" :> p[4])

\* a value that is neither None, a mapping, a list nor a tuple
ScalarCalib == [kind |-> "scalar", d |-> EmptyDict, l |-> <<>>]

\* the `intrinsics` arguments: the four parameters as a mapping (alone, with
\* one more key, with a fov key), as a list and as a pre-built matrix;
\* field-of-view mappings and lists; mappings and lists that are neither
IntrinsicsInputs ==
  {DictCalib(FourKeyDict(p)) : p \in FourParams}
  \cup {DictCalib(FourKeyDict(p) @@ ("skew" :> 0)) : p \in FourParams}
  \cup {DictCalib(FourKeyDict(p) @@ ("fov" :> 90)) : p \in FourParams}
  \cup {ListCalib(p) : p \in FourParams}
  \cup {[kind |-> "matrix", d |-> EmptyDict, l |-> p] : p \in FourParams}
  \cup {DictCalib(d) : d \in {("fov" :> 90),
                              ("hfov" :> 90) @@ ("vfov" :> 60),
                              ("fov" :> 60) @@ ("fx" :> 800),
                              ("hfov" :> 90) @@ ("vfov" :> 60) @@ ("model" :> 1),
                              ("fx" :> 800) @@ ("fy" :> 810) @@ ("cx" :> 320)}}
  \cup {ListCalib(l) : l \in {<<90>>, <<90, 60>>, <<800, 810, 320>>}}
  \cup {NoCalib, ScalarCalib}

\* the `distortion` arguments: absent, lists of 0, 2, 14 and 15 coefficients,
\* mappings with some of the schema keys (and one foreign key), another value
DistortionInputs ==
  {ListCalib(l) : l \in {[i \in 1..n |-> i] : n \in {0, 2, DISTORTION_LEN, DISTORTION_LEN + 1}}}
  \cup {DictCalib(d) : d \in {("k1" :> 1), ("p1" :> 3) @@ ("tauy" :> 7),
                              ("k2" :> 2) @@ ("coefficients" :> 9)}}
  \cup {NoCalib, ScalarCalib}

\* the `resolution` arguments: None, [width, height], and lists of another length
ResolutionInputs == {NoRes, <<640, 480>>, <<640>>, <<640, 480, 3>>}

\* no call made yet
NoCiArgs == [intrinsics |-> NoCalib, distortion |-> NoCalib, resolution |-> NoRes]
NoCiResult == [called |-> FALSE, made |-> Raise("none"), dict |-> Raise("none")]

\* obj = CameraIntrinsics(intrinsics, distortion, resolution); obj.asDict()
ConstructCall(intrinsics, distortion, res) ==
  /\ ci_args' = [intrinsics |-> intrinsics, distortion |-> distortion, resolution |-> res]
  /\ ci_result' =
       LET made == CameraIntrinsics(intrinsics, distortion, res)
       IN [called |-> TRUE, made |-> made,
           dict |-> IF made.raised THEN Raise("none") ELSE asDict(made.value)]

\* no direct call of the constructor is made
ConstructIdle == ci_args = NoCiArgs /\ ci_result = NoCiResult

-----------------------------------------------------------------------------
(* computeObjBoundingBoxParams.  A normalized coordinate is an integer       *)
(* number of thousandths; the real number comw (comh) is the fraction        *)
(* [num, den] with den = 3 (4).                                              *)

\* what 1.0 of a normalized coordinate is
NORM == 1000

\* the nearest integer instead of the truncation
IntOf_nearest(num, den) ==
  IF num >= 0
  THEN (2 * num + den) \div (2 * den)
  ELSE 0 - ((2 * (0 - num) + den) \div (2 * den))

\* int(num / den), den > 0: the fraction truncated toward zero
IntOf(num, den) ==
  IF num >= 0
  THEN num \div den
  ELSE 0 - ((0 - num) \div den)

\* computeObjBoundingBoxParams: the two fields it puts into pobj, and the pixel
\* extents it computed on the way
computeObjBoundingBoxParams(fw, fh, x, y, w, h, xminnorm, yminnorm, xmaxnorm, ymaxnorm) ==
  LET xmax == IntOf(xmaxnorm * fw, NORM)
      xmin == IntOf(xminnorm * fw, NORM)
      ymax == IntOf(ymaxnorm * fh, NORM)
      ymin == IntOf(yminnorm * fh, NORM)
      comw == [num |-> xmax - xmin, den |-> 3]
      comh == [num |-> ymax - ymin, den |-> 4]
  IN [extents |-> [xmin |-> xmin, ymin |-> ymin, xmax |-> xmax, ymax |-> ymax],
      center_of_mass |-> [x |-> IntOf(xmin * comw.den + comw.num, comw.den),
                          y |-> IntOf(ymin * comh.den + comh.num, comh.den),
                          width |-> comw, height |-> comh],
      bounding_box_px |-> [x |-> x, y |-> y, width |-> w, height |-> h]]

\* frame sizes, pixel boxes and normalized coordinates of a detection
FrameWidths == {640, 639}
FrameHeights == {480, 479}
PixelBoxes == {<<160, 120, 320, 240>>, <<191, 143, 447, 335>>}
NormMins == {250, 300}
NormMaxs == {750, 999}

BoxArgs ==
  [fw : FrameWidths, fh : FrameHeights, px : PixelBoxes,
   xminnorm : NormMins, yminnorm : NormMins, xmaxnorm : NormMaxs, ymaxnorm : NormMaxs]

\* no call made yet
NoBoxArgs ==
  [fw |-> 0, fh |-> 0, px |-> <<0, 0, 0, 0>>,
   xminnorm |-> 0, yminnorm |-> 0, xmaxnorm |-> 0, ymaxnorm |-> 0]
NoBoxResult == [called |-> FALSE, pobj |-> computeObjBoundingBoxParams(0, 0, 0, 0, 0, 0, 0, 0, 0, 0)]

\* a call computeObjBoundingBoxParams(pobj, fw, fh, x, y, w, h, ...) with arguments a
BoxCall(a) ==
  /\ bb_args' = a
  /\ bb_result' =
       [called |-> TRUE,
        pobj |-> computeObjBoundingBoxParams(a.fw, a.fh, a.px[1], a.px[2], a.px[3], a.px[4],
                                             a.xminnorm, a.yminnorm, a.xmaxnorm, a.ymaxnorm)]

\* no call of computeObjBoundingBoxParams is made
BoxIdle == bb_args = NoBoxArgs /\ bb_result = NoBoxResult

-----------------------------------------------------------------------------
(* Metadata policies (the module-level functions metadatapolicies maps to) *)

\* detectionPolicy: category and confidence of the detection
detectionPolicy(item) ==
  Return([category |-> item.label, confidence |-> item.confidence, reid |-> 0, id |-> 0])

\* reidPolicy: the detection step, then the packed 256-float tensor; reid is
\* the number of bytes packed
reidPolicy(item) ==
  LET p == detectionPolicy(item)
  IN IF item.tensor = 0
     THEN Raise("IndexError")
     ELSE IF item.tensor # REID_FLOATS
          THEN Raise("struct.error")
          ELSE Return([p.value EXCEPT !.reid = 4 * item.tensor])

\* classificationPolicy: the detection step, then the classifier's label
classificationPolicy(item) ==
  LET p == detectionPolicy(item)
  IN IF item.cls = NoCls
     THEN Raise("KeyError")
     ELSE Return([p.value EXCEPT !.category = item.cls])

\* self.metadatagenpolicy(vaobj, det, framewidth, frameheight)
ApplyPolicy(policy, item) ==
  CASE policy = "reidPolicy" -> reidPolicy(item)
    [] policy = "classificationPolicy" -> classificationPolicy(item)
    [] OTHER -> detectionPolicy(item)

-----------------------------------------------------------------------------
(* PostInferenceDataPublish *)

\* PostInferenceDataPublish.get_threshold
get_threshold(obj_type) ==
  DictGet(confidence_thresholds, obj_type, confidence_thresholds["default"])

\* the gate with the comparison made strict the wrong way: equality is skipped
SkipDetection_orEqual(confidence, threshold) == confidence <= threshold

\* line 406: the detection is skipped
SkipDetection(confidence, threshold) == confidence < threshold

\* the id counted from zero
NextId_fromZero(lst) == Len(lst)

\* line 411: the id of the record appended to the list lst
NextId(lst) == Len(lst) + 1

\* objects[otype] of a defaultdict(list)
DefaultList(objects, otype) == DictGet(objects, otype, <<>>)

\* lines 402-412: the loop over the detections from index i on
RECURSIVE ObjLoop(_, _, _)
ObjLoop(dets, i, objects) ==
  IF i > Len(dets)
  THEN Return(objects)
  ELSE LET det == dets[i]
           threshold == get_threshold(det.label)
       IN IF SkipDetection(det.confidence, threshold)
          THEN ObjLoop(dets, i + 1, objects)
          ELSE LET p == ApplyPolicy(metadatagenpolicy, det)
               IN IF p.raised
                  THEN [raised |-> TRUE, error |-> "data_shape", value |-> det]
                  ELSE LET otype == p.value.category
                           lst == DefaultList(objects, otype)
                           vaobj == [p.value EXCEPT !.id = NextId(lst)]
                       IN ObjLoop(dets, i + 1, (otype :> Append(lst, vaobj)) @@ objects)

\* the grouping container kept from the frame before
GroupObjects_carriedOver(g) ==
  IF g.hasObjects /\ Len(g.objects) > 0
  THEN IF g.resolution = NoRes
       THEN Raise("input")
       ELSE ObjLoop(g.objects, 1, frame_level_data.objects)
  ELSE Return(EmptyDict)

\* lines 398-412: the grouped records of the frame, or the error raised
GroupObjects(g) ==
  IF g.hasObjects /\ Len(g.objects) > 0
  THEN IF g.resolution = NoRes
       THEN Raise("input")
       ELSE ObjLoop(g.objects, 1, EmptyDict)
  ELSE Return(EmptyDict)

\* the resolution taken from every frame that reports one
LatchResolution_lastWins(res, g) ==
  IF g.resolution # NoRes THEN g.resolution ELSE res

\* lines 416-418: the resolution latch
LatchResolution(res, g) ==
  IF res = NoRes
  THEN IF g.resolution # NoRes THEN g.resolution ELSE res
  ELSE res

\* the intrinsics resolved on every frame once the resolution is known
IntrinsicsDue_everyFrame(obj, res, calib) ==
  res # NoRes /\ calib.kind # "none"

\* line 421: the intrinsics are to be resolved
IntrinsicsDue(obj, res, calib) ==
  obj = NoObj /\ res # NoRes /\ calib.kind # "none"

\* no detection
NoDet == [label |-> "none", confidence |-> 0, tensor |-> 0, cls |-> NoCls]

\* How the call made in the last step ended: status "skipped" (client not
\* connected), "raised" or "returned"; stored: line 413 was executed; det: the
\* detection whose policy raised; res_known: self.resolution was set when the
\* call began
Outcome(status, error, stored, det) ==
  [status |-> status, error |-> error, stored |-> stored, det |-> det,
   res_known |-> resolution # NoRes]

\* the last step was no processFrame or buildObjData call
NoOutcome ==
  [status |-> "none", error |-> "none", stored |-> FALSE, det |-> NoDet, res_known |-> FALSE]

\* PostInferenceDataPublish.buildObjData: the state it leaves and how it ends
buildObjData(g) ==
  LET grouped == GroupObjects(g)
      fld1 == [frame_level_data EXCEPT !.keys = @ \cup {"objects"},
                                       !.objects = grouped.value]
      res1 == LatchResolution(resolution, g)
      due == IntrinsicsDue(intrinsics_obj, res1, calib_intrinsics)
      made == CameraIntrinsics(calib_intrinsics, calib_distortion, res1)
      obj1 == IF due /\ ~made.raised THEN made.value ELSE intrinsics_obj
      dict == asDict(obj1)
  IN IF grouped.raised
     THEN [outcome |-> Outcome("raised", grouped.error, FALSE,
                               IF grouped.error = "data_shape" THEN grouped.value ELSE NoDet),
           frame_level_data |-> frame_level_data, resolution |-> resolution,
           intrinsics_obj |-> intrinsics_obj, calls |-> 0]
     ELSE IF ~due
          THEN [outcome |-> Outcome("returned", "none", TRUE, NoDet),
                frame_level_data |-> fld1, resolution |-> res1,
                intrinsics_obj |-> intrinsics_obj, calls |-> 0]
          ELSE IF made.raised \/ dict.raised
               THEN [outcome |-> Outcome("raised", "calibration", TRUE, NoDet),
                     frame_level_data |-> fld1, resolution |-> res1,
                     intrinsics_obj |-> obj1, calls |-> 1]
               ELSE [outcome |-> Outcome("returned", "none", TRUE, NoDet),
                     frame_level_data |->
                       [fld1 EXCEPT !.keys = @ \cup {"intrinsics", "distortion"},
                                    !.intrinsics = dict.value.intrinsics,
                                    !.distortion = dict.value.distortion],
                     resolution |-> res1, intrinsics_obj |-> obj1, calls |-> 1]

\* imgdatadict = {}
EmptyImg == [keys |-> {}, image |-> "none"]

\* the intrinsics fields added whether or not an object exists
buildImgData_always(obj, annotate) ==
  [keys |-> {"timestamp", "id", "image", "intrinsics", "distortion"},
   image |-> IF annotate THEN "annotated" ELSE "raw"]

\* PostInferenceDataPublish.buildImgData: the image message it fills in, obj
\* being self.intrinsics_obj
buildImgData(obj, annotate) ==
  [keys |-> {"timestamp", "id", "image"}
              \cup (IF obj # NoObj THEN {"intrinsics", "distortion"} ELSE {}),
   image |-> IF annotate THEN "annotated" ELSE "raw"]

\* a message handed to self.client.publish
Msg(topic, body) == [topic |-> topic, keys |-> body.keys, image |-> body.image]

\* the request flag left armed
ResetFlag_keep(armed) == armed

\* lines 437 and 443: the request flag after its image was published
ResetFlag(armed) == IF armed THEN FALSE ELSE armed

\* lines 434-437: the messages published for a getimage request
PublishImage(armed, obj) ==
  IF armed THEN <<Msg("image", buildImgData(obj, TRUE))>> ELSE <<>>

\* lines 439-443: the messages published for a getcalibrationimage request,
\* imgdatadict being what the getimage step left
PublishCalibrationImage(armed, imgdatadict, obj) ==
  IF armed
  THEN <<Msg("calibration",
             IF imgdatadict = EmptyImg THEN buildImgData(obj, FALSE) ELSE imgdatadict)>>
  ELSE <<>>

\* PostInferenceDataPublish.processFrame on the frame with metadata g
processFrame(g) ==
  IF ~connected
  THEN /\ outcome' = Outcome("skipped", "none", FALSE, NoDet)
       /\ published' = <<>>
       /\ UNCHANGED <<metadatagenpolicy, confidence_thresholds, calib_intrinsics,
                      calib_distortion, intrinsics_obj, resolution, frame_level_data,
                      is_publish_image, is_publish_calibration_image, connected, gvadata,
                      intrinsics_calls>>
  ELSE \E b \in {buildObjData(g)} :
       LET imgdatadict == IF is_publish_image
                          THEN buildImgData(b.intrinsics_obj, TRUE)
                          ELSE EmptyImg
       IN /\ intrinsics_calls + b.calls <= MaxIntrinsicsCalls
          /\ intrinsics_calls' = intrinsics_calls + b.calls
          /\ outcome' = b.outcome
          /\ frame_level_data' = b.frame_level_data
          /\ resolution' = b.resolution
          /\ intrinsics_obj' = b.intrinsics_obj
          /\ gvadata' = IF b.outcome.stored THEN g ELSE gvadata
          /\ IF b.outcome.status = "raised"
             THEN /\ published' = <<>>
                  /\ UNCHANGED <<is_publish_image, is_publish_calibration_image>>
             ELSE /\ published' =
                       PublishImage(is_publish_image, b.intrinsics_obj)
                       \o PublishCalibrationImage(is_publish_calibration_image, imgdatadict,
                                                  b.intrinsics_obj)
                       \o <<Msg("data", [keys |-> b.frame_level_data.keys, image |-> "none"])>>
                  /\ is_publish_image' = ResetFlag(is_publish_image)
                  /\ is_publish_calibration_image' = ResetFlag(is_publish_calibration_image)
          /\ UNCHANGED <<metadatagenpolicy, confidence_thresholds, calib_intrinsics,
                         calib_distortion, connected>>

\* a direct call of PostInferenceDataPublish.buildObjData with metadata g
buildObjDataCall(g) ==
  \E b \in {buildObjData(g)} :
     /\ intrinsics_calls + b.calls <= MaxIntrinsicsCalls
     /\ intrinsics_calls' = intrinsics_calls + b.calls
     /\ outcome' = b.outcome
     /\ frame_level_data' = b.frame_level_data
     /\ resolution' = b.resolution
     /\ intrinsics_obj' = b.intrinsics_obj
     /\ gvadata' = IF b.outcome.stored THEN g ELSE gvadata
     /\ UNCHANGED <<metadatagenpolicy, confidence_thresholds, calib_intrinsics,
                    calib_distortion, is_publish_image, is_publish_calibration_image,
                    connected, published>>

\* the payloads delivered on scenescape/cmd/camera/<id>
CameraCommands == {"getimage", "getcalibrationimage", "ping"}

\* PostInferenceDataPublish.handleCameraMessage
handleCameraMessage(msg) ==
  /\ is_publish_image' = IF msg = "getimage" THEN TRUE ELSE is_publish_image
  /\ is_publish_calibration_image' =
       IF msg = "getimage"
       THEN is_publish_calibration_image
       ELSE IF msg = "getcalibrationimage" THEN TRUE ELSE is_publish_calibration_image
  /\ outcome' = NoOutcome
  /\ published' = <<>>
  /\ UNCHANGED <<metadatagenpolicy, confidence_thresholds, calib_intrinsics,
                 calib_distortion, intrinsics_obj, resolution, frame_level_data, connected,
                 gvadata, intrinsics_calls>>

\* the MQTT network loop started by setupMQTT gains or loses the connection
ConnectionChange ==
  /\ connected' = ~connected
  /\ outcome' = NoOutcome
  /\ published' = <<>>
  /\ UNCHANGED <<metadatagenpolicy, confidence_thresholds, calib_intrinsics,
                 calib_distortion, intrinsics_obj, resolution, frame_level_data,
                 is_publish_image, is_publish_calibration_image, gvadata,
                 intrinsics_calls>>

\* PostInferenceDataPublish.__init__
PublishInit ==
  /\ metadatagenpolicy \in POLICIES
  /\ confidence_thresholds \in ThresholdTables
  /\ \E calib \in Calibrations :
       /\ calib_intrinsics = calib.intrinsics
       /\ calib_distortion = calib.distortion
  /\ intrinsics_obj = NoObj
  /\ resolution = NoRes
  /\ frame_level_data = [keys |-> {"id", "debug_mac"}, objects |-> EmptyDict,
                         intrinsics |-> EmptyDict, distortion |-> EmptyDict]
  /\ is_publish_image \in BOOLEAN
  /\ is_publish_calibration_image = FALSE
  /\ connected = FALSE
  /\ gvadata = NoFrame
  /\ outcome = NoOutcome
  /\ published = <<>>
  /\ intrinsics_calls = 0

-----------------------------------------------------------------------------
(* processFrame statement by statement.  client.loop_start() runs the MQTT   *)
(* network loop, and with it handleCameraMessage, on a thread of its own;    *)
(* the interpreter may switch threads between any two statements of          *)
(* processFrame.  pc names the statement the frame thread is to run next.    *)

\* no command is waiting to be noticed
NoneUnserved == [image |-> FALSE, calibration |-> FALSE]

\* the frames the frame thread is given
ThreadFrames ==
  { [hasObjects |-> FALSE, objects |-> <<>>, resolution |-> <<640, 480>>],
    [hasObjects |-> TRUE, resolution |-> <<640, 480>>,
     objects |-> <<[label |-> "person", confidence |-> 5, tensor |-> 0, cls |-> NoCls]>>] }

\* lines 426-432: processFrame is entered and buildObjData runs
EnterFrame(g) ==
  /\ pc = "idle"
  /\ thread_imgdatadict' = EmptyImg
  /\ published' = <<>>
  /\ IF ~connected
     THEN /\ outcome' = Outcome("skipped", "none", FALSE, NoDet)
          /\ pc' = "idle"
          /\ UNCHANGED <<intrinsics_obj, resolution, frame_level_data, gvadata,
                         intrinsics_calls>>
     ELSE \E b \in {buildObjData(g)} :
            /\ intrinsics_calls + b.calls <= MaxIntrinsicsCalls
            /\ intrinsics_calls' = intrinsics_calls + b.calls
            /\ outcome' = b.outcome
            /\ frame_level_data' = b.frame_level_data
            /\ resolution' = b.resolution
            /\ intrinsics_obj' = b.intrinsics_obj
            /\ gvadata' = IF b.outcome.stored THEN g ELSE gvadata
            /\ pc' = IF b.outcome.status = "raised" THEN "idle" ELSE "check_image"
  /\ UNCHANGED <<metadatagenpolicy, confidence_thresholds, calib_intrinsics,
                 calib_distortion, is_publish_image, is_publish_calibration_image,
                 connected, unserved>>

\* line 434: if self.is_publish_image
CheckImage ==
  /\ pc = "check_image"
  /\ pc' = IF is_publish_image THEN "publish_image" ELSE "check_calibration"
  /\ unserved' = IF is_publish_image THEN [unserved EXCEPT !.image = FALSE] ELSE unserved
  /\ UNCHANGED <<metadatagenpolicy, confidence_thresholds, calib_intrinsics,
                 calib_distortion, intrinsics_obj, resolution, frame_level_data,
                 is_publish_image, is_publish_calibration_image, connected, gvadata,
                 outcome, published, intrinsics_calls, thread_imgdatadict>>

\* lines 435-436: the annotated image is built and published
BuildAndPublishImage ==
  /\ pc = "publish_image"
  /\ pc' = "reset_image"
  /\ thread_imgdatadict' = buildImgData(intrinsics_obj, TRUE)
  /\ published' = Append(published, Msg("image", buildImgData(intrinsics_obj, TRUE)))
  /\ UNCHANGED <<metadatagenpolicy, confidence_thresholds, calib_intrinsics,
                 calib_distortion, intrinsics_obj, resolution, frame_level_data,
                 is_publish_image, is_publish_calibration_image, connected, gvadata,
                 outcome, intrinsics_calls, unserved>>

\* line 437: self.is_publish_image = False
ResetImage ==
  /\ pc = "reset_image"
  /\ pc' = "check_calibration"
  /\ is_publish_image' = FALSE
  /\ UNCHANGED <<metadatagenpolicy, confidence_thresholds, calib_intrinsics,
                 calib_distortion, intrinsics_obj, resolution, frame_level_data,
                 is_publish_calibration_image, connected, gvadata, outcome, published,
                 intrinsics_calls, thread_imgdatadict, unserved>>

\* line 439: if self.is_publish_calibration_image
CheckCalibration ==
  /\ pc = "check_calibration"
  /\ pc' = IF is_publish_calibration_image THEN "publish_calibration" ELSE "publish_data"
  /\ unserved' = IF is_publish_calibration_image
                 THEN [unserved EXCEPT !.calibration = FALSE]
                 ELSE unserved
  /\ UNCHANGED <<metadatagenpolicy, confidence_thresholds, calib_intrinsics,
                 calib_distortion, intrinsics_obj, resolution, frame_level_data,
                 is_publish_image, is_publish_calibration_image, connected, gvadata,
                 outcome, published, intrinsics_calls, thread_imgdatadict>>

\* lines 440-442: the raw image is built unless imgdatadict is filled; it is published
BuildAndPublishCalibration ==
  /\ pc = "publish_calibration"
  /\ pc' = "reset_calibration"
  /\ thread_imgdatadict' = IF thread_imgdatadict = EmptyImg
                    THEN buildImgData(intrinsics_obj, FALSE)
                    ELSE thread_imgdatadict
  /\ published' = published \o PublishCalibrationImage(TRUE, thread_imgdatadict, intrinsics_obj)
  /\ UNCHANGED <<metadatagenpolicy, confidence_thresholds, calib_intrinsics,
                 calib_distortion, intrinsics_obj, resolution, frame_level_data,
                 is_publish_image, is_publish_calibration_image, connected, gvadata,
                 outcome, intrinsics_calls, unserved>>

\* line 443: self.is_publish_calibration_image = False
ResetCalibration ==
  /\ pc = "reset_calibration"
  /\ pc' = "publish_data"
  /\ is_publish_calibration_image' = FALSE
  /\ UNCHANGED <<metadatagenpolicy, confidence_thresholds, calib_intrinsics,
                 calib_distortion, intrinsics_obj, resolution, frame_level_data,
                 is_publish_image, connected, gvadata, outcome, published,
                 intrinsics_calls, thread_imgdatadict, unserved>>

\* lines 445-447: the frame record is published and processFrame returns
PublishData ==
  /\ pc = "publish_data"
  /\ pc' = "idle"
  /\ published' = Append(published, Msg("data", [keys |-> frame_level_data.keys,
                                                 image |-> "none"]))
  /\ UNCHANGED <<metadatagenpolicy, confidence_thresholds, calib_intrinsics,
                 calib_distortion, intrinsics_obj, resolution, frame_level_data,
                 is_publish_image, is_publish_calibration_image, connected, gvadata,
                 outcome, intrinsics_calls, thread_imgdatadict, unserved>>

\* handleCameraMessage run by the MQTT thread, wherever the frame thread is
onMessage(msg) ==
  /\ is_publish_image' = IF msg = "getimage" THEN TRUE ELSE is_publish_image
  /\ is_publish_calibration_image' =
       IF msg = "getimage"
       THEN is_publish_calibration_image
       ELSE IF msg = "getcalibrationimage" THEN TRUE ELSE is_publish_calibration_image
  /\ unserved' = [image |-> unserved.image \/ msg = "getimage",
                  calibration |-> unserved.calibration \/ msg = "getcalibrationimage"]
  /\ UNCHANGED <<metadatagenpolicy, confidence_thresholds, calib_intrinsics,
                 calib_distortion, intrinsics_obj, resolution, frame_level_data, connected,
                 gvadata, outcome, published, intrinsics_calls, pc, thread_imgdatadict>>

\* the frame thread is not inside processFrame
ThreadIdle == pc = "idle" /\ thread_imgdatadict = EmptyImg /\ unserved = NoneUnserved

\* an instance with the client connected, processFrame not entered yet
ThreadInit ==
  /\ metadatagenpolicy = "detectionPolicy"
  /\ confidence_thresholds \in ThresholdTables
  /\ calib_intrinsics = NoCalib
  /\ calib_distortion = NoCalib
  /\ intrinsics_obj = NoObj
  /\ resolution = NoRes
  /\ frame_level_data = [keys |-> {"id", "debug_mac"}, objects |-> EmptyDict,
                         intrinsics |-> EmptyDict, distortion |-> EmptyDict]
  /\ is_publish_image = FALSE
  /\ is_publish_calibration_image = FALSE
  /\ connected = TRUE
  /\ gvadata = NoFrame
  /\ outcome = NoOutcome
  /\ published = <<>>
  /\ intrinsics_calls = 0
  /\ ThreadIdle

-----------------------------------------------------------------------------
(* PostDecodeTimestampCapture *)

\* None for lastTimeSync and last_calculated_fps_ts; `not x` holds of it
NoTime == 0

\* self.fps_calc_interval, in seconds
FPS_CALC_INTERVAL == 1

\* self.fps_alpha, in hundredths
FPS_ALPHA == 75

\* the initial self.fps, in thousandths of a frame per second
FPS_INIT == 5000

\* seconds between two network-time synchronisations
NTP_RESYNC == 1000

\* seconds of wall-clock time between two frames
Deltas == {1, 2, NTP_RESYNC, NTP_RESYNC + 1}

\* what ntpClient.request does: it raises, or its response carries an offset
NtpResults == {[raised |-> TRUE, offset |-> 0], [raised |-> FALSE, offset |-> 3],
               [raised |-> FALSE, offset |-> 0 - 2]}

NoNtp == [raised |-> FALSE, offset |-> 0]

\* line 173: the rate is to be recomputed
FpsDue(now, anchor) == (now - anchor) > FPS_CALC_INTERVAL

\* line 174: the blended rate, in thousandths
BlendFps(rate, cnt, elapsed) ==
  (rate * FPS_ALPHA + (100 - FPS_ALPHA) * ((cnt * 1000) \div elapsed)) \div 100

\* line 180: the network time is to be queried
NtpDue(now, last) == last = NoTime \/ now - last > NTP_RESYNC

\* how a PostDecodeTimestampCapture.processFrame call ended: stamp is
\* timestamp_for_next_block of the message attached (attached = FALSE: none)
TsOutcome(status, attached, stamp, queried, recomputed) ==
  [status |-> status, attached |-> attached, stamp |-> stamp, queried |-> queried,
   recomputed |-> recomputed]

\* no rate recompute yet: used is the frame count a recompute divided, arrived
\* the number of frames that came after the frame that set the anchor
NoFpsCalc == [used |-> 0, arrived |-> 0]

\* the last two query times
NoteQuery(qs, now) == IF Len(qs) < 2 THEN Append(qs, now) ELSE <<qs[2], now>>

\* PostDecodeTimestampCapture.processFrame at wall-clock time now, the
\* network-time query (if made) ending as ntp
tsProcessFrame(now, ntp) ==
  LET cnt1 == frame_cnt + 1
      anchor1 == IF last_calculated_fps_ts = NoTime THEN now ELSE last_calculated_fps_ts
      recompute == FpsDue(now, anchor1)
      query == ntpServer /\ NtpDue(now, lastTimeSync)
      offset1 == IF query THEN ntp.offset ELSE timeOffset
  IN /\ ts_frames < MaxTsFrames
     /\ ts_frames' = ts_frames + 1
     /\ clock' = now
     /\ frame_cnt' = IF recompute THEN 0 ELSE cnt1
     /\ last_calculated_fps_ts' = IF recompute THEN now ELSE anchor1
     /\ fps' = IF recompute THEN BlendFps(fps, cnt1, now - anchor1) ELSE fps
     /\ fps_calc' = IF recompute
                    THEN [used |-> cnt1, arrived |-> frames_since_anchor + 1]
                    ELSE fps_calc
     /\ frames_since_anchor' = IF last_calculated_fps_ts = NoTime \/ recompute
                               THEN 0
                               ELSE frames_since_anchor + 1
     /\ query \/ ntp = NoNtp
     /\ ntp_queries' = IF query THEN NoteQuery(ntp_queries, now) ELSE ntp_queries
     /\ IF query /\ ntp.raised
        THEN /\ UNCHANGED <<timeOffset, lastTimeSync>>
             /\ ts_outcome' = TsOutcome("raised", FALSE, 0, TRUE, recompute)
        ELSE /\ timeOffset' = offset1
             /\ lastTimeSync' = IF query THEN now ELSE lastTimeSync
             /\ ts_outcome' = TsOutcome("returned", TRUE, now + offset1, query, recompute)
     /\ UNCHANGED ntpServer

\* PostDecodeTimestampCapture.__init__
TimestampInit ==
  /\ ntpServer \in BOOLEAN
  /\ lastTimeSync = NoTime
  /\ timeOffset = 0
  /\ fps = FPS_INIT
  /\ last_calculated_fps_ts = NoTime
  /\ frame_cnt = 0
  /\ clock = 1
  /\ ts_outcome = TsOutcome("none", FALSE, 0, FALSE, FALSE)
  /\ ntp_queries = <<>>
  /\ ts_frames = 0
  /\ frames_since_anchor = 0
  /\ fps_calc = NoFpsCalc

-----------------------------------------------------------------------------
(* Specifications *)

\* a PostInferenceDataPublish instance that is not driven
PublishIdle ==
  /\ metadatagenpolicy = "detectionPolicy"
  /\ confidence_thresholds = ("default" :> 5)
  /\ calib_intrinsics = NoCalib
  /\ calib_distortion = NoCalib
  /\ intrinsics_obj = NoObj
  /\ resolution = NoRes
  /\ frame_level_data = [keys |-> {"id", "debug_mac"}, objects |-> EmptyDict,
                         intrinsics |-> EmptyDict, distortion |-> EmptyDict]
  /\ is_publish_image = FALSE
  /\ is_publish_calibration_image = FALSE
  /\ connected = FALSE
  /\ gvadata = NoFrame
  /\ outcome = NoOutcome
  /\ published = <<>>
  /\ intrinsics_calls = 0

\* a PostDecodeTimestampCapture instance that is not driven
TimestampIdle ==
  /\ ntpServer = FALSE
  /\ lastTimeSync = NoTime
  /\ timeOffset = 0
  /\ fps = FPS_INIT
  /\ last_calculated_fps_ts = NoTime
  /\ frame_cnt = 0
  /\ clock = 1
  /\ ts_outcome = TsOutcome("none", FALSE, 0, FALSE, FALSE)
  /\ ntp_queries = <<>>
  /\ ts_frames = 0
  /\ frames_since_anchor = 0
  /\ fps_calc = NoFpsCalc

\* The publisher driven by the pipeline (frames of at most one detection), the
\* command topic and the MQTT connection
Init == PublishInit /\ TimestampIdle /\ ConstructIdle /\ BoxIdle /\ ThreadIdle

Frame ==
  \E g \in SingleDetFrames(metadatagenpolicy) :
    processFrame(g) /\ UNCHANGED <<tsvars, civars, bbvars, threadvars>>

Command ==
  \E msg \in CameraCommands :
    handleCameraMessage(msg) /\ UNCHANGED <<tsvars, civars, bbvars, threadvars>>

Connection == ConnectionChange /\ UNCHANGED <<tsvars, civars, bbvars, threadvars>>

Next == Frame \/ Command \/ Connection

Spec == Init /\ [][Next]_vars

\* buildObjData called directly, on every frame of up to MaxDets detections
\* at one resolution, for a camera without a calibration entry
ObjFramesOf ==
  [policy \in POLICIES |->
     {g \in GvaData(policy) : g.resolution = <<640, 480>>}]

ObjInit ==
  /\ PublishInit
  /\ TimestampIdle
  /\ ConstructIdle
  /\ BoxIdle
  /\ ThreadIdle
  /\ calib_intrinsics = NoCalib
  /\ ~is_publish_image

ObjNext ==
  \E g \in ObjFramesOf[metadatagenpolicy] :
    buildObjDataCall(g) /\ UNCHANGED <<tsvars, civars, bbvars, threadvars>>

SpecObj == ObjInit /\ [][ObjNext]_vars

\* The timestamp filter driven by the pipeline
TsInit == TimestampInit /\ PublishIdle /\ ConstructIdle /\ BoxIdle /\ ThreadIdle

TsNext ==
  \E d \in Deltas : \E ntp \in NtpResults \cup {NoNtp} :
    /\ tsProcessFrame(IF ts_frames = 0 THEN clock ELSE clock + d, ntp)
    /\ UNCHANGED <<pubvars, civars, bbvars, threadvars>>

SpecTs == TsInit /\ [][TsNext]_vars

\* The CameraIntrinsics constructor called directly on every combination of
\* the argument sets
CiInit == PublishIdle /\ TimestampIdle /\ ConstructIdle /\ BoxIdle /\ ThreadIdle

CiNext ==
  \E intrinsics \in IntrinsicsInputs, distortion \in DistortionInputs,
     res \in ResolutionInputs :
    /\ ConstructCall(intrinsics, distortion, res)
    /\ UNCHANGED <<pubvars, tsvars, bbvars, threadvars>>

SpecCi == CiInit /\ [][CiNext]_vars

\* computeObjBoundingBoxParams called on every combination of the argument sets
BoxInit == PublishIdle /\ TimestampIdle /\ ConstructIdle /\ BoxIdle /\ ThreadIdle

BoxNext == \E a \in BoxArgs : BoxCall(a) /\ UNCHANGED <<pubvars, tsvars, civars, threadvars>>

SpecBox == BoxInit /\ [][BoxNext]_vars

\* The frame thread running processFrame statement by statement while the MQTT
\* thread delivers commands
ThreadStart == ThreadInit /\ TimestampIdle /\ ConstructIdle /\ BoxIdle

\* the variables of the instances the two threads do not touch
apartvars == <<tsvars, civars, bbvars>>

ThreadNext ==
  \/ \E g \in ThreadFrames : EnterFrame(g) /\ UNCHANGED apartvars
  \/ CheckImage /\ UNCHANGED apartvars
  \/ BuildAndPublishImage /\ UNCHANGED apartvars
  \/ ResetImage /\ UNCHANGED apartvars
  \/ CheckCalibration /\ UNCHANGED apartvars
  \/ BuildAndPublishCalibration /\ UNCHANGED apartvars
  \/ ResetCalibration /\ UNCHANGED apartvars
  \/ PublishData /\ UNCHANGED apartvars
  \/ \E msg \in CameraCommands : onMessage(msg) /\ UNCHANGED apartvars

SpecThread == ThreadStart /\ [][ThreadNext]_vars

-----------------------------------------------------------------------------
(* What the frame record is expected to hold, stated from the threshold      *)
(* table and the frame alone                                                 *)

\* the threshold of a label: its table entry, else the table's default
ThresholdFor(label) ==
  IF label \in DOMAIN confidence_thresholds
  THEN confidence_thresholds[label]
  ELSE confidence_thresholds["default"]

\* the detection passes the confidence gate
Survives(det) == det.confidence >= ThresholdFor(det.label)

\* the category the selected policy files a detection under
CategoryOf(det) ==
  IF metadatagenpolicy = "classificationPolicy" THEN det.cls ELSE det.label

\* the surviving detections of category c, in arrival order
SurvivorsOf(g, c) ==
  LET Test(det) == Survives(det) /\ CategoryOf(det) = c
  IN SelectSeq(g.objects, Test)

\* the ObjectRecord of a surviving detection, without its id
RecordOf(det) ==
  [category |-> CategoryOf(det), confidence |-> det.confidence,
   reid |-> IF metadatagenpolicy = "reidPolicy" THEN 4 * REID_FLOATS ELSE 0]

\* an ObjectRecord without its id
Unnumbered(rec) == [category |-> rec.category, confidence |-> rec.confidence, reid |-> rec.reid]

\* the records of category c in the frame record (none: the key is absent)
RecordsOf(c) == DictGet(frame_level_data.objects, c, <<>>)

\* the frame record holds the objects of a frame
HasObjects == "objects" \in frame_level_data.keys

-----------------------------------------------------------------------------
C2_IdsContiguousInArrivalOrder ==
  HasObjects =>
    \A c \in DOMAIN frame_level_data.objects :
      /\ Len(RecordsOf(c)) = Len(SurvivorsOf(gvadata, c))
      /\ \A k \in 1..Len(RecordsOf(c)) :
           /\ RecordsOf(c)[k].id = k
           /\ k <= Len(SurvivorsOf(gvadata, c))
           /\ Unnumbered(RecordsOf(c)[k]) = RecordOf(SurvivorsOf(gvadata, c)[k])

\* a rejected detection came before an accepted one, whose id is 1 all the same
C2_Witness ==
  /\ outcome.status = "returned"
  /\ Len(gvadata.objects) >= 2
  /\ ~Survives(gvadata.objects[1])
  /\ Survives(gvadata.objects[2])
  /\ RecordsOf(CategoryOf(gvadata.objects[2]))[1].id = 1

PublishedOn(topic) ==
  LET Test(m) == m.topic = topic
  IN SelectSeq(published, Test)

(* C3: the CameraIntrinsics constructor is invoked at most once per camera,  *)
(* whatever the calibration description.                                     *)
C3_ResolverInvokedAtMostOnce == intrinsics_calls <= 1

C6_FrameRecordAlwaysEmitted ==
  (outcome.status # "none" /\ outcome.res_known) => Len(PublishedOn("data")) = 1

(* C7: a data-shape error in a detection does not abort the frame: the call  *)
(* returns and the frame record is published.                                *)
C7_DataShapeErrorKeepsFrame ==
  outcome.error = "data_shape"
    => (outcome.status = "returned" /\ Len(PublishedOn("data")) = 1)

C9_CalibrationImageIsRaw ==
  \A i \in DOMAIN published :
    published[i].topic = "calibration" => published[i].image = "raw"

(* C10: with a network time source configured, any two successive          *)
(* network-time queries are more than the resync interval apart, also when   *)
(* a query fails.                                                            *)
C10_QueriesOneIntervalApart ==
  Len(ntp_queries) = 2 => ntp_queries[2] - ntp_queries[1] > NTP_RESYNC

(* C11: a failing network-time query does not abort the frame: the call      *)
(* returns, the time offset is the one held before, and the message is       *)
(* attached with the time corrected by that offset.  (A query was made and   *)
(* failed when lastTimeSync is not the time of the call.)                    *)
C11_NtpFailureStillStamps ==
  (ts_outcome.queried /\ lastTimeSync # clock)
    => /\ ts_outcome.status = "returned"
       /\ ts_outcome.attached
       /\ ts_outcome.stamp = clock + timeOffset

-----------------------------------------------------------------------------
(* What a direct constructor call is expected to give, stated from its       *)
(* arguments alone                                                           *)

\* the four parameters given as a mapping with exactly the four keys, or as a
\* 4-element list
IsFourParam(a) ==
  \/ a.kind = "dict" /\ DOMAIN a.d = {"fx", "fy", "cx", "cy"}
  \/ a.kind = "list" /\ Len(a.l) = 4

\* a mapping with the four keys among its keys
HasFourKeys(a) == a.kind = "dict" /\ {"fx", "fy", "cx", "cy"} \subseteq DOMAIN a.d

\* fx, fy, cx, cy of such an input
FourOf(a) == IF a.kind = "dict" THEN <<a.d["fx"], a.d["fy"], a.d["cx"], a.d["cy"]>> ELSE a.l

\* the canonical pinhole matrix of (fx, fy, cx, cy)
PinholeOf(p) == <<<<p[1], 0, p[3]>>, <<0, p[2], p[4]>>, <<0, 0, 1>>>>

\* a distortion input of one of the forms the resolver is specified for: absent,
\* a list of at most 14 entries, a mapping, or an unrecognized value
ListedDistortion(a) == a.kind = "list" => Len(a.l) <= 14

\* a field-of-view calibration: a mapping without all four keys that has fov
\* or hfov and vfov, or a list of one or two angles
IsFovInput(a) ==
  \/ /\ a.kind = "dict"
     /\ ~HasFourKeys(a)
     /\ ("fov" \in DOMAIN a.d \/ {"hfov", "vfov"} \subseteq DOMAIN a.d)
  \/ a.kind = "list" /\ Len(a.l) \in {1, 2}

\* the k-th coefficient a distortion input gives: the k-th list entry, the
\* entry of the k-th schema key, else zero
CoefficientOf(a, k) ==
  LET key == <<"k1", "k2", "p1", "p2", "k3", "k4", "k5", "k6",
               "s1", "s2", "s3", "s4", "taux", "tauy">>[k]
  IN CASE a.kind = "list" -> IF k <= Len(a.l) THEN a.l[k] ELSE 0
       [] a.kind = "dict" -> IF key \in DOMAIN a.d THEN a.d[key] ELSE 0
       [] OTHER -> 0

C13_FourKeysAmongOthers ==
  /\ (ci_result.called /\ HasFourKeys(ci_args.intrinsics)
        /\ ListedDistortion(ci_args.distortion))
       => /\ ~ci_result.made.raised
          /\ ci_result.made.value.m = PinholeOf(FourOf(ci_args.intrinsics))
  /\ (ci_result.called /\ ci_args.intrinsics.kind = "dict" /\ IsFovInput(ci_args.intrinsics)
        /\ ListedDistortion(ci_args.distortion) /\ Len(ci_args.resolution) = 2)
       => /\ ~ci_result.made.raised
          /\ ci_result.made.value.m[1][3] * 2 = ci_args.resolution[1]
          /\ ci_result.made.value.m[2][3] * 2 = ci_args.resolution[2]

(* C14: the distortion vector of every object made has exactly 14 entries:   *)
(* the entries of a list of 0 to 14 coefficients in order, then zeros; the   *)
(* entries of a mapping in the order of the schema keys, zero for a key it   *)
(* lacks; fourteen zeros for an absent or unrecognized input.  With valid    *)
(* intrinsics such an input never makes the constructor fail.                *)
C14_DistortionHasFourteenEntries ==
  /\ (ci_result.called /\ ~ci_result.made.raised)
       => /\ Len(ci_result.made.value.distortion) = 14
          /\ \A k \in 1..14 :
               ci_result.made.value.distortion[k] = CoefficientOf(ci_args.distortion, k)
  /\ (ci_result.called /\ IsFourParam(ci_args.intrinsics)
        /\ ListedDistortion(ci_args.distortion))
       => ~ci_result.made.raised

\* a 2-entry list has been padded to 14 entries
C14_Witness ==
  /\ ci_result.called
  /\ ~ci_result.made.raised
  /\ ci_args.distortion.kind = "list"
  /\ Len(ci_args.distortion.l) = 2
  /\ ci_result.made.value.distortion[2] = 2
  /\ ci_result.made.value.distortion[14] = 0

(* C15: a field-of-view calibration resolved with a resolution that is       *)
(* missing or not a 2-element sequence fails with ValueError: no object.     *)
C15_FovNeedsResolution ==
  (ci_result.called /\ IsFovInput(ci_args.intrinsics) /\ Len(ci_args.resolution) # 2)
    => (ci_result.made.raised /\ ci_result.made.error = "ValueError")

\* a mapping with hfov and vfov met a 3-element resolution
C15_Witness ==
  /\ ci_result.called
  /\ ci_args.intrinsics.kind = "dict"
  /\ {"hfov", "vfov"} \subseteq DOMAIN ci_args.intrinsics.d
  /\ Len(ci_args.resolution) = 3
  /\ ci_result.made.raised

(* C16: for a camera without a calibration entry no published message,       *)
(* frame record or image, has an intrinsics or a distortion field, and the   *)
(* frame record never gets one.                                              *)
C16_NoCalibrationNoIntrinsicsFields ==
  (calib_intrinsics = NoCalib /\ calib_distortion = NoCalib)
    => /\ \A i \in DOMAIN published :
            published[i].keys \cap {"intrinsics", "distortion"} = {}
       /\ frame_level_data.keys \cap {"intrinsics", "distortion"} = {}
       /\ intrinsics_obj = NoObj

\* such a camera, its resolution known, has published both images and the
\* frame record for one frame
C16_Witness ==
  /\ calib_intrinsics = NoCalib
  /\ calib_distortion = NoCalib
  /\ resolution # NoRes
  /\ outcome.status = "returned"
  /\ Len(PublishedOn("image")) = 1
  /\ Len(PublishedOn("calibration")) = 1
  /\ Len(PublishedOn("data")) = 1

(* C17: no getimage or getcalibrationimage command is lost, however          *)
(* handleCameraMessage interleaves with the statements of processFrame: as   *)
(* long as a command has arrived that no later check of its flag has seen,   *)
(* the flag is armed, so that a later frame serves it.                       *)
C17_NoCommandLost ==
  /\ unserved.image => is_publish_image
  /\ unserved.calibration => is_publish_calibration_image

(* C18: on a frame that recomputes the rate the counter is reset to 0, the   *)
(* anchor is the time of the frame, and the frame count used is the number   *)
(* of frames that arrived after the anchor up to and including this frame,   *)
(* in every interval, the first one included.                                *)
C18_RecomputeCountsFramesAfterAnchor ==
  ts_outcome.recomputed
    => /\ frame_cnt = 0
       /\ last_calculated_fps_ts = clock
       /\ fps_calc.used = fps_calc.arrived

(* C19: the aggregator state only moves forward.  A stored resolution is     *)
(* never changed; an intrinsics object exists only with a stored resolution  *)
(* and, once made, is never replaced (the constructor is not called again);  *)
(* intrinsics and distortion, once in the frame record, stay in it with the  *)
(* same values and are in every frame record published afterwards.           *)
C19_StateOnlyMovesForward ==
  [][/\ resolution # NoRes => resolution' = resolution
     /\ intrinsics_obj # NoObj =>
          (intrinsics_obj' = intrinsics_obj /\ intrinsics_calls' = intrinsics_calls)
     /\ intrinsics_obj' # NoObj => resolution' # NoRes
     /\ "intrinsics" \in frame_level_data'.keys => intrinsics_obj' # NoObj
     /\ "intrinsics" \in frame_level_data.keys =>
          /\ {"intrinsics", "distortion"} \subseteq frame_level_data'.keys
          /\ frame_level_data'.intrinsics = frame_level_data.intrinsics
          /\ frame_level_data'.distortion = frame_level_data.distortion
          /\ \A i \in DOMAIN published' :
               published'[i].topic = "data"
                 => {"intrinsics", "distortion"} \subseteq published'[i].keys
    ]_vars

\* with the intrinsics merged, a later frame reporting another resolution has
\* been published with them
C19_Witness ==
  /\ outcome.status = "returned"
  /\ intrinsics_calls = 1
  /\ "intrinsics" \in frame_level_data.keys
  /\ gvadata.resolution # NoRes
  /\ gvadata.resolution # resolution
  /\ Len(gvadata.objects) = 1
  /\ Len(PublishedOn("data")) = 1
  /\ "intrinsics" \in PublishedOn("data")[1].keys

-----------------------------------------------------------------------------
(* What computeObjBoundingBoxParams is expected to give *)

\* r is the fraction num / den (den > 0) cut to an integer toward zero
IsTruncation(r, num, den) ==
  IF num >= 0
  THEN r * den <= num /\ num < (r + 1) * den
  ELSE r * den >= num /\ num > (r - 1) * den

\* r is an integer nearest to the fraction num / den (den > 0)
IsNearest(r, num, den) ==
  /\ 2 * (r * den - num) <= den
  /\ 2 * (num - r * den) <= den

\* what the call gives apart from the pixel extents: comw, comh, the center of
\* mass cut to integers, the pixel box copied, and the worked example
BoxFieldsFromExtents ==
  LET a == bb_args
      e == bb_result.pobj.extents
      com == bb_result.pobj.center_of_mass
  IN /\ com.width = [num |-> e.xmax - e.xmin, den |-> 3]
     /\ com.height = [num |-> e.ymax - e.ymin, den |-> 4]
     /\ IsTruncation(com.x, 3 * e.xmin + (e.xmax - e.xmin), 3)
     /\ IsTruncation(com.y, 4 * e.ymin + (e.ymax - e.ymin), 4)
     /\ bb_result.pobj.bounding_box_px =
          [x |-> a.px[1], y |-> a.px[2], width |-> a.px[3], height |-> a.px[4]]
     /\ (a.fw = 640 /\ a.fh = 480 /\ a.xminnorm = 250 /\ a.yminnorm = 250
           /\ a.xmaxnorm = 750 /\ a.ymaxnorm = 750)
          => (e = [xmin |-> 160, ymin |-> 120, xmax |-> 480, ymax |-> 360]
                /\ com.x = 266 /\ com.y = 180)

(* C20, as stated: the pixel extents are the normalized coordinates times    *)
(* the frame size rounded to the nearest integer; comw, comh, the center of  *)
(* mass, the copied pixel box and the example are as computed from them.     *)
C20_ExtentsRoundedToNearest ==
  bb_result.called
    => /\ IsNearest(bb_result.pobj.extents.xmin, bb_args.xminnorm * bb_args.fw, 1000)
       /\ IsNearest(bb_result.pobj.extents.ymin, bb_args.yminnorm * bb_args.fh, 1000)
       /\ IsNearest(bb_result.pobj.extents.xmax, bb_args.xmaxnorm * bb_args.fw, 1000)
       /\ IsNearest(bb_result.pobj.extents.ymax, bb_args.ymaxnorm * bb_args.fh, 1000)
       /\ BoxFieldsFromExtents

(* C20, amended: the pixel extents are the normalized coordinates times the  *)
(* frame size cut to an integer toward zero (int()), not rounded; the rest   *)
(* is as stated.                                                             *)
C20_ExtentsTruncated ==
  bb_result.called
    => /\ IsTruncation(bb_result.pobj.extents.xmin, bb_args.xminnorm * bb_args.fw, 1000)
       /\ IsTruncation(bb_result.pobj.extents.ymin, bb_args.yminnorm * bb_args.fh, 1000)
       /\ IsTruncation(bb_result.pobj.extents.xmax, bb_args.xmaxnorm * bb_args.fw, 1000)
       /\ IsTruncation(bb_result.pobj.extents.ymax, bb_args.ymaxnorm * bb_args.fh, 1000)
       /\ BoxFieldsFromExtents

\* 0.3 of a width of 639 is 191.7 pixels: the extent is 191, not 192
C20_Witness ==
  /\ bb_result.called
  /\ bb_args.fw = 639
  /\ bb_args.xminnorm = 300
  /\ bb_result.pobj.extents.xmin = 191

====
